---- MODULE Spec2Model ----
(***************************************************************************)
(* Trip logger: the route and Hours-of-Service planning functions of       *)
(* backend/trips/utils.py, the calculate_route request and the log-entry   *)
(* API of backend/trips/views.py, the latter also under two concurrent     *)
(* requests.                                                               *)
(*                                                                         *)
(* Hours and miles are fixed-point numbers in thousandths: 1.0 is Unit,    *)
(* 0.01 is Cent.  Python's float arithmetic is modelled as exact           *)
(* arithmetic on that grid; round(x, 2) is modelled by Round2.             *)
(***************************************************************************)
EXTENDS Integers, Sequences, FiniteSets, TLC

VARIABLES
    pc,                    \* position of the function or request being run
    \* calculate_route / calculate_trip_route: the request, the collaborators'
    \* replies and the locals
    route,
    \* calculate_trip_stops
    driving_time_hours, total_distance, stops,
    \* generate_daily_logs / calculate_eld_compliance
    trip_start_time, trip_duration_hours, cycle_used_hours,
    daily_logs, current_time, remaining_trip_time, remaining_cycle_hours,
    day_count, compliance,
    \* Trip/Log store and the entries API
    logs, entries, today, last,
    \* entry requests being served concurrently
    inflight,
    \* compute_cycle_remaining
    as_of_date, cycle

stopVars == <<route, driving_time_hours, total_distance, stops>>
tripVars == <<trip_start_time, trip_duration_hours, cycle_used_hours>>
loopVars == <<daily_logs, current_time, remaining_trip_time,
              remaining_cycle_hours, day_count>>
storeVars == <<logs, entries, today, last, inflight>>
cycleVars == <<as_of_date, cycle>>
vars == <<pc, stopVars, tripVars, loopVars, compliance, storeVars, cycleVars>>

\* ------------------------------------------------------------------------
\* Fixed-point arithmetic

\* 0.01, the resolution of round(x, 2), in thousandths.
Cent == 10
\* 1.0
Unit == 100 * Cent

None == "None"
\* The empty dictionary; also a result that has not been computed yet.
NoAttrs == [k \in {} |-> 0]

Min(a, b) == IF a <= b THEN a ELSE b

\* round(x, 2): to the nearest hundredth.  (On an exact tie Python rounds the
\* binary float, modelled here as half-to-even; no input below is a tie.)
Round2(x) ==
    LET q == x \div Cent
        r == x % Cent
    IN  IF 2 * r > Cent \/ (2 * r = Cent /\ q % 2 = 1)
        THEN (q + 1) * Cent
        ELSE q * Cent

\* ------------------------------------------------------------------------
\* Bounds and input sets

\* Whole 8-hour driving blocks / 1000-mile legs in the largest planner input.
MaxBlocks == 3
\* Whole 11-hour cycles in the largest trip duration.
MaxCycles == 2

DrivingInputs ==
    {k * 8 * Unit + d : k \in 0..MaxBlocks, d \in {0, 1, 4 * Unit, 8 * Unit - 1}}
DistanceInputs ==
    {k * 1000 * Unit + d : k \in 0..MaxBlocks, d \in {0, 1, 1000 * Unit - 1}}
\* 0, 0.001, 0.006, 0.01, 3, 8, 11, 11.001, 11.006, 11.01, 14, 19, 22, ... 25, 30
TripInputs ==
    {k * 11 * Unit + d : k \in 0..MaxCycles, d \in {0, 1, 6, Cent, 3 * Unit, 8 * Unit}}
\* 0, 0.01, 2, 5, 10.994, 11, 12
CycleUsedInputs ==
    {0, Cent, 2 * Unit, 5 * Unit, 11 * Unit - 6, 11 * Unit, 12 * Unit}
\* hours after midnight of the first day (Jan 15): 00:00, 08:00, 20:00
StartInputs == {0, 8 * Unit, 20 * Unit}

\* ------------------------------------------------------------------------
\* calculate_trip_stops

Stop(type, duration, description) ==
    [type |-> type, duration |-> duration, description |-> description,
     mandatory |-> TRUE]

\* int(driving_time_hours // 8)
RestBreaksNeededCeil(d) == (d + 8 * Unit - 1) \div (8 * Unit)
RestBreaksNeeded(d) == d \div (8 * Unit)

\* int(total_distance // 1000)
FuelStopsNeeded(m) == m \div (1000 * Unit)

calculate_trip_stops(d, m) ==
    <<Stop("pickup", Unit, <<"Loading/Pickup stop">>),
      Stop("dropoff", Unit, <<"Unloading/Dropoff stop">>)>>
    \o [i \in 1..RestBreaksNeeded(d) |->
          Stop("rest_break", Unit \div 2,
               <<"30-minute rest break (required after", 8 * i, "hours)">>)]
    \o [i \in 1..FuelStopsNeeded(m) |->
          Stop("fuel", Unit \div 2, <<"Fuel stop (every ~1000 miles)">>)]

\* ------------------------------------------------------------------------
\* generate_daily_logs

\* One calendar day, and current_time.date() with day 0 the first day.
Day == 24 * Unit
DateOf(t) == t \div Day

\* hours_available = min(11.0, remaining_cycle_hours, remaining_trip_time);
\* hours_driving = min(hours_available, 11.0)
HoursDrivingNoCycle(rc, rt) == Min(11 * Unit, rt)
HoursDriving(rc, rt) == Min(Min(Min(11 * Unit, rc), rt), 11 * Unit)

\* remaining_cycle_hours after the forced 10-hour break
CycleResetNone == 0 * Unit
CycleReset == 11 * Unit

\* remaining_trip_time -= hours_driving
TripTimeAfter(rt, h) == rt - h

\* The loop emits at most two records per 11-hour cycle of the largest input.
MaxLogRecords == 2 * (MaxCycles + 2) + 2

ForcedBreakRecordShort(t) ==
    [day |-> DateOf(t), driving_hours |-> 0, off_duty_hours |-> 8 * Unit,
     status |-> "off_duty", remarks |-> <<"10-hour break - new cycle starts">>]
ForcedBreakRecord(t) ==
    [day |-> DateOf(t), driving_hours |-> 0, off_duty_hours |-> 10 * Unit,
     status |-> "off_duty", remarks |-> <<"10-hour break - new cycle starts">>]

DrivingRecord(t, n, h) ==
    [day |-> DateOf(t), driving_hours |-> Round2(h),
     off_duty_hours |-> Round2(10 * Unit),
     status |-> IF h > 0 THEN "driving" ELSE "off_duty",
     remarks |-> <<"Day", n, h, 10 * Unit>>]

\* ------------------------------------------------------------------------
\* calculate_eld_compliance

\* math.ceil(trip_duration_hours / 11.0)
CyclesNeededFloor(t) == t \div (11 * Unit)
CyclesNeeded(t) == -((-t) \div (11 * Unit))

\* (cycles_needed - 1) * 10.0
TotalBreakTimePerCycle(n) == n * 10 * Unit
TotalBreakTime(n) == (n - 1) * 10 * Unit

\* trip_duration_hours <= remaining_cycle_hours or cycles_needed > 1
CompliantSingleCycle(t, rc, n) == t <= rc
Compliant(t, rc, n) == t <= rc \/ n > 1

calculate_eld_compliance(t, cu) ==
    LET rc == 11 * Unit - cu
        n == CyclesNeeded(t)
        b == TotalBreakTime(n)
    IN  [compliant |-> Compliant(t, rc, n),
         cycles_needed |-> n,
         remaining_cycle_hours |-> rc,
         total_break_time |-> b,
         recommendations |-> <<<<"Trip requires", n, "driving cycle(s)">>,
                               <<"Total break time needed:", b, "hours">>,
                               <<"Ensure 10-hour off-duty break between cycles">>>>]

\* ------------------------------------------------------------------------
\* Variables a specification does not use stay at None.

IdleStops ==
    /\ route = None /\ driving_time_hours = None /\ total_distance = None
    /\ stops = None
IdleTrip ==
    /\ trip_start_time = None /\ trip_duration_hours = None
    /\ cycle_used_hours = None /\ compliance = None
    /\ daily_logs = None /\ current_time = None /\ remaining_trip_time = None
    /\ remaining_cycle_hours = None /\ day_count = None
IdleStore ==
    /\ logs = None /\ entries = None /\ today = None /\ last = None
    /\ inflight = None
IdleCycle == as_of_date = None /\ cycle = None

\* ------------------------------------------------------------------------
\* SpecStops: one call of calculate_trip_stops on every planner input.

InitStops ==
    /\ pc = "calculate_trip_stops"
    /\ driving_time_hours \in DrivingInputs
    /\ total_distance \in DistanceInputs
    /\ stops = <<>>
    /\ route = None
    /\ IdleTrip /\ IdleStore /\ IdleCycle

PlanStops ==
    /\ pc = "calculate_trip_stops"
    /\ pc' = "done"
    /\ stops' = calculate_trip_stops(driving_time_hours, total_distance)
    /\ UNCHANGED <<route, driving_time_hours, total_distance, tripVars,
                   loopVars, compliance, storeVars, cycleVars>>

NextStops == PlanStops

SpecStops == InitStops /\ [][NextStops]_vars

\* ------------------------------------------------------------------------
\* SpecTrip: TripViewSet.calculate_route after the route is known:
\* generate_daily_logs, one loop iteration per step, then
\* calculate_eld_compliance on the same trip duration and cycle hours.

InitTrip ==
    /\ pc = "generate_daily_logs"
    /\ trip_start_time \in StartInputs
    /\ trip_duration_hours \in TripInputs
    /\ cycle_used_hours \in CycleUsedInputs
    /\ daily_logs = <<>>
    /\ current_time = trip_start_time
    /\ remaining_trip_time = trip_duration_hours
    /\ remaining_cycle_hours = 11 * Unit - cycle_used_hours
    /\ day_count = 0
    /\ compliance = NoAttrs
    /\ IdleStops /\ IdleStore /\ IdleCycle

\* while remaining_trip_time > 0, the branch remaining_cycle_hours <= 0
ForcedBreakDay ==
    /\ pc = "generate_daily_logs"
    /\ Len(daily_logs) < MaxLogRecords
    /\ remaining_trip_time > 0
    /\ remaining_cycle_hours <= 0
    /\ day_count' = day_count + 1
    /\ daily_logs' = Append(daily_logs, ForcedBreakRecord(current_time))
    /\ remaining_cycle_hours' = CycleReset
    /\ current_time' = current_time + 10 * Unit
    /\ UNCHANGED <<pc, remaining_trip_time, tripVars, compliance, stopVars,
                   storeVars, cycleVars>>

\* while remaining_trip_time > 0, the branch remaining_cycle_hours > 0
DrivingDay ==
    /\ pc = "generate_daily_logs"
    /\ Len(daily_logs) < MaxLogRecords
    /\ remaining_trip_time > 0
    /\ remaining_cycle_hours > 0
    /\ LET hours_driving == HoursDriving(remaining_cycle_hours, remaining_trip_time)
           off_duty_hours == 10 * Unit
       IN  /\ day_count' = day_count + 1
           /\ daily_logs' = Append(daily_logs,
                 DrivingRecord(current_time, day_count + 1, hours_driving))
           /\ remaining_trip_time' = TripTimeAfter(remaining_trip_time, hours_driving)
           /\ remaining_cycle_hours' = remaining_cycle_hours - hours_driving
           /\ current_time' = current_time + hours_driving + off_duty_hours
    /\ UNCHANGED <<pc, tripVars, compliance, stopVars, storeVars, cycleVars>>

\* the loop ends and generate_daily_logs returns daily_logs
ReturnDailyLogs ==
    /\ pc = "generate_daily_logs"
    /\ remaining_trip_time <= 0
    /\ pc' = "calculate_eld_compliance"
    /\ UNCHANGED <<tripVars, loopVars, compliance, stopVars, storeVars, cycleVars>>

CheckCompliance ==
    /\ pc = "calculate_eld_compliance"
    /\ pc' = "done"
    /\ compliance' = calculate_eld_compliance(trip_duration_hours, cycle_used_hours)
    /\ UNCHANGED <<tripVars, loopVars, stopVars, storeVars, cycleVars>>

NextTrip == ForcedBreakDay \/ DrivingDay \/ ReturnDailyLogs \/ CheckCompliance

\* The request handler is synchronous: a step that can be taken is taken.
SpecTrip == InitTrip /\ [][NextTrip]_vars /\ WF_vars(NextTrip)

\* ------------------------------------------------------------------------
\* Stop Planner properties (SpecStops)

CountType(seq, type) == Cardinality({i \in 1..Len(seq) : seq[i].type = type})

\* C1: for every driving duration D >= 0 and distance M >= 0 the planner
\* returns exactly one pickup and one dropoff stop of 1.0 h, exactly floor(D/8)
\* rest breaks and floor(M/1000) fuel stops of 0.5 h, every stop mandatory,
\* and nothing else.  floor is stated by its bounds: n*8 <= D < (n+1)*8.
C1_StopCounts ==
    pc = "done" =>
        LET n == CountType(stops, "rest_break")
            m == CountType(stops, "fuel")
        IN  /\ CountType(stops, "pickup") = 1
            /\ CountType(stops, "dropoff") = 1
            /\ Len(stops) = 2 + n + m
            /\ n * 8 * Unit <= driving_time_hours
            /\ driving_time_hours < (n + 1) * 8 * Unit
            /\ m * 1000 * Unit <= total_distance
            /\ total_distance < (m + 1) * 1000 * Unit
            /\ \A i \in 1..Len(stops) :
                  /\ stops[i].mandatory
                  /\ stops[i].type \in {"pickup", "dropoff"}
                        => 2 * stops[i].duration = 2 * Unit
                  /\ stops[i].type \in {"rest_break", "fuel"}
                        => 2 * stops[i].duration = Unit

\* a plan with a partial 8-hour block after two full ones and a full 1000 miles
C1_Witness ==
    /\ pc = "done"
    /\ driving_time_hours = 2 * 8 * Unit + 4 * Unit
    /\ total_distance = 1000 * Unit
    /\ CountType(stops, "rest_break") = 2
    /\ CountType(stops, "fuel") = 1

\* ------------------------------------------------------------------------
\* Daily Log Generator properties (SpecTrip)

RECURSIVE SumDrivingHours(_)
SumDrivingHours(seq) ==
    IF seq = <<>> THEN 0
    ELSE seq[1].driving_hours + SumDrivingHours(Tail(seq))

InLoop == pc = "generate_daily_logs"

\* C2: with cycle_used = 0 the sum of driving_hours over the emitted day
\* records never exceeds the requested trip duration, at every point of the
\* simulation and in the final list.
C2_DrivingWithinTrip ==
    cycle_used_hours = 0 => SumDrivingHours(daily_logs) <= trip_duration_hours

\* C3: generate_daily_logs terminates for every trip duration and every
\* cycle_used >= 0: a driving iteration strictly decreases
\* remaining_trip_time, and a forced-break iteration leaves the loop in a
\* state whose next iteration is a driving one.
C3_Terminates ==
    /\ <>(~InLoop)
    /\ [][DrivingDay => remaining_trip_time' < remaining_trip_time]_vars
    /\ [][ForcedBreakDay => (ENABLED DrivingDay)']_vars

\* the loop has returned after a forced break taken with cycle_used >= 11
C3_Witness ==
    /\ ~InLoop
    /\ cycle_used_hours >= 11 * Unit
    /\ Len(daily_logs) >= 4
    /\ daily_logs[1].driving_hours = 0
    /\ daily_logs[2].driving_hours = 11 * Unit

Shape(seq) ==
    [i \in 1..Len(seq) |-> <<seq[i].driving_hours, seq[i].off_duty_hours, seq[i].status>>]

\* C4: start Jan 15 08:00, trip_duration 25 h, cycle_used 2 h gives, in
\* order, 9 h driving, a forced 10-hour break, 11 h driving, a forced 10-hour
\* break, 5 h driving, every record with 10 off-duty hours, and nothing else.
C4_Scenario ==
    (/\ ~InLoop
     /\ trip_start_time = 8 * Unit
     /\ trip_duration_hours = 25 * Unit
     /\ cycle_used_hours = 2 * Unit)
    => Shape(daily_logs) =
          << <<9 * Unit, 10 * Unit, "driving">>,
             <<0, 10 * Unit, "off_duty">>,
             <<11 * Unit, 10 * Unit, "driving">>,
             <<0, 10 * Unit, "off_duty">>,
             <<5 * Unit, 10 * Unit, "driving">> >>

C4_Witness ==
    /\ ~InLoop
    /\ trip_start_time = 8 * Unit
    /\ trip_duration_hours = 25 * Unit
    /\ cycle_used_hours = 2 * Unit
    /\ Len(daily_logs) = 5

\* ------------------------------------------------------------------------
\* Compliance Checker properties (SpecTrip)

\* C5: cycles_needed = ceil(trip_duration / 11), stated by its bounds
\* (n-1)*11 < T <= n*11; durations 8, 11, 11.01, 22, 25 give 1, 1, 2, 2, 3;
\* with cycles_needed = 3 total_break_time is 20.0 hours.
C5_CyclesNeeded ==
    pc = "done" =>
        LET n == compliance.cycles_needed
            t == trip_duration_hours
        IN  /\ (n - 1) * 11 * Unit < t
            /\ t <= n * 11 * Unit
            /\ t = 8 * Unit => n = 1
            /\ t = 11 * Unit => n = 1
            /\ t = 11 * Unit + Cent => n = 2
            /\ t = 22 * Unit => n = 2
            /\ t = 25 * Unit => n = 3
            /\ n = 3 => compliance.total_break_time = 20 * Unit

C5_Witness ==
    /\ pc = "done"
    /\ trip_duration_hours = 25 * Unit
    /\ compliance.cycles_needed = 3
    /\ compliance.total_break_time = 20 * Unit

\* C6: compliant is true exactly when trip_duration <= 11 - cycle_used or
\* cycles_needed > 1; so every trip longer than 11 hours is compliant whatever
\* cycle_used is, and the non-compliant trips are exactly those with
\* 11 - cycle_used < trip_duration <= 11.
C6_Compliant ==
    pc = "done" =>
        LET t == trip_duration_hours
            cu == cycle_used_hours
        IN  /\ compliance.compliant
                <=> (t <= 11 * Unit - cu \/ compliance.cycles_needed > 1)
            /\ t > 11 * Unit => compliance.compliant
            /\ ~compliance.compliant <=> (11 * Unit - cu < t /\ t <= 11 * Unit)

\* a trip longer than 11 hours with the cycle already exhausted
C6_Witness ==
    /\ pc = "done"
    /\ trip_duration_hours > 11 * Unit
    /\ cycle_used_hours >= 11 * Unit
    /\ compliance.compliant

\* ------------------------------------------------------------------------
\* Trip/Log store: DailyLog and LogEntry rows of one trip, and the requests of
\* DailyLogViewSet and LogEntryViewSet, one request per step.
\*   logs[id]    = [trip, day, driving_hours, off_duty_hours]
\*   entries[id] = [daily_log, status, start_hour, duration_hours]
\*   today       = timezone.localdate()
\*   last        = the endpoint and the response of the latest request

\* Largest calendar day (days are 0..MaxDay; the clock starts on day 0).
MaxDay == 1
\* Largest primary key handed out to a DailyLog / a LogEntry.
MaxLogId == 2
MaxEntryId == 2

Days == 0..MaxDay
LogIds == 1..MaxLogId
EntryIds == 1..MaxEntryId

STATUS_CHOICES == {"off_duty", "sleeper_berth", "driving", "on_duty_not_driving"}

\* Request bodies are dictionaries: a key is present or absent.
OptField(k, values) == {NoAttrs} \cup {(k :> v) : v \in values}
Has(attrs, k) == k \in DOMAIN attrs

StartHourInputs == {23 * Unit}
DurationInputs == {2 * Unit}
StatusInputs == {"driving", "on_duty_not_driving"}
RollupInputs == {5 * Unit}

EntryAttrs ==
    {a @@ b @@ c @@ d :
        a \in OptField("daily_log", LogIds),
        b \in OptField("status", StatusInputs),
        c \in OptField("start_hour", StartHourInputs),
        d \in OptField("duration_hours", DurationInputs)}

LogAttrs ==
    {a @@ b :
        a \in OptField("day", Days),
        b \in OptField("driving_hours", RollupInputs)}

\* the next auto-increment primary key
NextId(rows) ==
    IF DOMAIN rows = {} THEN 1
    ELSE 1 + CHOOSE i \in DOMAIN rows : \A j \in DOMAIN rows : j <= i

\* LogEntrySerializer.validate
Validate(attrs) ==
    /\ Has(attrs, "start_hour")
          => ~(attrs.start_hour < 0 \/ attrs.start_hour >= 24 * Unit)
    /\ Has(attrs, "duration_hours") => ~(attrs.duration_hours <= 0)
    /\ (Has(attrs, "start_hour") /\ Has(attrs, "duration_hours"))
          => ~(attrs.start_hour + attrs.duration_hours > 24 * Unit)

\* DailyLogSerializer.validate_driving_hours / validate_off_duty_hours
ValidateLog(attrs) ==
    /\ Has(attrs, "driving_hours")
          => ~(attrs.driving_hours < 0 \/ attrs.driving_hours > 11 * Unit)
    /\ Has(attrs, "off_duty_hours") => ~(attrs.off_duty_hours < 0)

\* unique_together = ['trip', 'day'], for the row `self` (0 on create)
DayTaken(day, self) == \E l \in DOMAIN logs : l # self /\ logs[l].day = day

\* the model's field values: a given attribute, else the fallback
Field(attrs, k, fallback) == IF Has(attrs, k) THEN attrs[k] ELSE fallback

EntriesOf(rows, l) == {e \in DOMAIN rows : rows[e].daily_log = l}

RECURSIVE SumDuration(_, _)
SumDuration(rows, ids) ==
    IF ids = {} THEN 0
    ELSE LET e == CHOOSE x \in ids : TRUE
         IN  rows[e].duration_hours + SumDuration(rows, ids \ {e})

DrivingSum(rows, l) ==
    SumDuration(rows, {e \in EntriesOf(rows, l) : rows[e].status = "driving"})
OtherSum(rows, l) ==
    SumDuration(rows, {e \in EntriesOf(rows, l) : rows[e].status # "driving"})

\* LogEntryViewSet._recompute_rollup(daily_log), over the rows after the save
RecomputeRollup(rows, l) ==
    [logs EXCEPT ![l].driving_hours = DrivingSum(rows, l),
                 ![l].off_duty_hours = OtherSum(rows, l)]

Response(endpoint, ok, error) ==
    [endpoint |-> endpoint, ok |-> ok, error |-> error]

Restrict(f, keep) == [x \in keep |-> f[x]]

Init ==
    /\ pc = "serve"
    /\ logs = NoAttrs
    /\ entries = NoAttrs
    /\ today = 0
    /\ last = Response("none", TRUE, "")
    /\ inflight = None
    /\ IdleStops /\ IdleTrip /\ IdleCycle

Frame ==
    UNCHANGED <<pc, stopVars, tripVars, loopVars, compliance, cycleVars, inflight>>

Reject(endpoint, error) ==
    /\ last' = Response(endpoint, FALSE, error)
    /\ UNCHANGED <<logs, entries, today>>

\* POST /logs/
LogCreate(attrs) ==
    /\ NextId(logs) <= MaxLogId
    /\ IF ~Has(attrs, "day") \/ ~ValidateLog(attrs) \/ DayTaken(attrs.day, 0)
       THEN Reject("/logs/", "validation")
       ELSE /\ logs' = logs @@ (NextId(logs) :>
                   [trip |-> 1, day |-> attrs.day,
                    driving_hours |-> Field(attrs, "driving_hours", 0),
                    off_duty_hours |-> Field(attrs, "off_duty_hours", 0)])
            /\ last' = Response("/logs/", TRUE, "")
            /\ UNCHANGED <<entries, today>>
    /\ Frame

\* PUT/PATCH /logs/<l>/
LogUpdate(l, attrs) ==
    /\ l \in DOMAIN logs
    /\ IF ~ValidateLog(attrs) \/ (Has(attrs, "day") /\ DayTaken(attrs.day, l))
       THEN Reject("/logs/", "validation")
       ELSE /\ logs' = [logs EXCEPT ![l] =
                   [trip |-> 1, day |-> Field(attrs, "day", @.day),
                    driving_hours |-> Field(attrs, "driving_hours", @.driving_hours),
                    off_duty_hours |-> Field(attrs, "off_duty_hours", @.off_duty_hours)]]
            /\ last' = Response("/logs/", TRUE, "")
            /\ UNCHANGED <<entries, today>>
    /\ Frame

\* DELETE /logs/<l>/ (entries go with their log: on_delete=CASCADE)
LogDelete(l) ==
    /\ l \in DOMAIN logs
    /\ logs' = Restrict(logs, DOMAIN logs \ {l})
    /\ entries' = Restrict(entries, DOMAIN entries \ EntriesOf(entries, l))
    /\ last' = Response("/logs/", TRUE, "")
    /\ UNCHANGED today
    /\ Frame

\* POST /entries/: LogEntryViewSet.perform_create
EntryCreate(attrs) ==
    /\ NextId(entries) <= MaxEntryId
    /\ IF \/ ~Has(attrs, "daily_log") \/ ~Has(attrs, "status")
          \/ ~Validate(attrs)
       THEN Reject("/entries/", "validation")
       ELSE IF attrs.daily_log \notin DOMAIN logs
       THEN Reject("/entries/", "validation")
       ELSE IF logs[attrs.daily_log].day < today
       THEN Reject("/entries/", "past_day")
       ELSE LET saved == entries @@ (NextId(entries) :>
                    [daily_log |-> attrs.daily_log, status |-> attrs.status,
                     start_hour |-> Field(attrs, "start_hour", 0),
                     duration_hours |-> Field(attrs, "duration_hours", 0)])
            IN  /\ entries' = saved
                /\ logs' = RecomputeRollup(saved, attrs.daily_log)
                /\ last' = Response("/entries/", TRUE, "")
                /\ UNCHANGED today
    /\ Frame

\* PUT/PATCH /entries/<e>/: LogEntryViewSet.perform_update
EntryUpdate(e, attrs) ==
    /\ e \in DOMAIN entries
    /\ LET daily_log == entries[e].daily_log
       IN  IF \/ ~Validate(attrs)
              \/ (Has(attrs, "daily_log") /\ attrs.daily_log \notin DOMAIN logs)
           THEN Reject("/entries/", "validation")
           ELSE IF logs[daily_log].day < today
           THEN Reject("/entries/", "past_day")
           ELSE LET saved == [entries EXCEPT ![e] =
                        [daily_log |-> Field(attrs, "daily_log", @.daily_log),
                         status |-> Field(attrs, "status", @.status),
                         start_hour |-> Field(attrs, "start_hour", @.start_hour),
                         duration_hours |->
                             Field(attrs, "duration_hours", @.duration_hours)]]
                IN  /\ entries' = saved
                    /\ logs' = RecomputeRollup(saved, daily_log)
                    /\ last' = Response("/entries/", TRUE, "")
                    /\ UNCHANGED today
    /\ Frame

\* DELETE /entries/<e>/: LogEntryViewSet.perform_destroy
EntryDelete(e) ==
    /\ e \in DOMAIN entries
    /\ LET daily_log == entries[e].daily_log
       IN  IF logs[daily_log].day < today
           THEN Reject("/entries/", "past_day")
           ELSE LET saved == Restrict(entries, DOMAIN entries \ {e})
                IN  /\ entries' = saved
                    /\ logs' = RecomputeRollup(saved, daily_log)
                    /\ last' = Response("/entries/", TRUE, "")
                    /\ UNCHANGED today
    /\ Frame

\* midnight passes
AdvanceDay ==
    /\ today < MaxDay
    /\ today' = today + 1
    /\ last' = Response("none", TRUE, "")
    /\ UNCHANGED <<logs, entries>>
    /\ Frame

Next ==
    \/ \E attrs \in LogAttrs : LogCreate(attrs)
    \/ \E l \in LogIds, attrs \in LogAttrs : LogUpdate(l, attrs)
    \/ \E l \in LogIds : LogDelete(l)
    \/ \E attrs \in EntryAttrs : EntryCreate(attrs)
    \/ \E e \in EntryIds, attrs \in EntryAttrs : EntryUpdate(e, attrs)
    \/ \E e \in EntryIds : EntryDelete(e)
    \/ AdvanceDay

Spec == Init /\ [][Next]_vars

\* ------------------------------------------------------------------------
\* Store properties (Spec)

\* C7: after any sequence of accepted LogEntry create and update requests,
\* partial updates included, every stored entry has 0 <= start_hour < 24,
\* duration_hours > 0 and start_hour + duration_hours <= 24.
C7_StoredEntriesValid ==
    \A e \in DOMAIN entries :
        /\ 0 <= entries[e].start_hour
        /\ entries[e].start_hour < 24 * Unit
        /\ entries[e].duration_hours > 0
        /\ entries[e].start_hour + entries[e].duration_hours <= 24 * Unit

\* C8: after every completed request every DailyLog's driving_hours equals
\* the sum of duration_hours of its current entries with status driving.
C8_RollupIsSum ==
    \A l \in DOMAIN logs : logs[l].driving_hours = DrivingSum(entries, l)

\* C9: no entry create, update or delete changes the set or content of the
\* entries of a DailyLog whose day is before today, nor its rollup fields; a
\* rejected request leaves every stored entry and rollup unchanged.
C9_PastLogsFrozen ==
    [][last'.endpoint = "/entries/" =>
          /\ \A l \in DOMAIN logs :
                logs[l].day < today =>
                    /\ l \in DOMAIN logs'
                    /\ logs'[l] = logs[l]
                    /\ EntriesOf(entries', l) = EntriesOf(entries, l)
                    /\ \A e \in EntriesOf(entries, l) : entries'[e] = entries[e]
          /\ ~last'.ok => UNCHANGED <<logs, entries>>]_vars

\* ------------------------------------------------------------------------
\* compute_cycle_remaining: the rolling 70-hour/8-day calculation over the
\* stored logs and entries of the trip, one loop iteration per step.
\* `cycle` holds the function's local variables and, at the end, its result.

\* window_start = as_of_date - timedelta(days=7)
WindowDays == 7
\* lookback_start = as_of_date - timedelta(days=10)
LookbackDays == 10
\* Longest run of consecutive calendar days on which the history has logs.
MaxHistorySpan == 5

\* The as-of date, with one day before the lookback and one day after it.
AsOfDay == LookbackDays + 1
HistoryDays == 0..(AsOfDay + 1)

WindowStartLookback(d) == d - LookbackDays
WindowStart(d) == d - WindowDays
LookbackStart(d) == d - LookbackDays

Entry(status, start, duration) ==
    [status |-> status, start_hour |-> start, duration_hours |-> duration]

\* What a driver logs on one day: nothing, a full day off, ten hours in the
\* sleeper berth, or a working day (5 h driving, 1 h on duty, 10 h off).
Profiles == {"none", "off24", "off10", "work"}
ProfileEntries(p) ==
    CASE p = "off24" -> <<Entry("off_duty", 0, 24 * Unit)>>
      [] p = "off10" -> <<Entry("sleeper_berth", 0, 10 * Unit)>>
      [] p = "work"  -> <<Entry("driving", 8 * Unit, 5 * Unit),
                          Entry("on_duty_not_driving", 13 * Unit, Unit),
                          Entry("off_duty", 14 * Unit, 10 * Unit)>>
      [] OTHER -> <<>>

\* The store after the driver logged profile[d] on each day d from `first` on.
RECURSIVE History(_, _, _, _)
History(first, profile, L, E) ==
    IF first \notin DOMAIN profile THEN [logs |-> L, entries |-> E]
    ELSE IF profile[first] = "none" THEN History(first + 1, profile, L, E)
    ELSE LET l == NextId(L)
             p == ProfileEntries(profile[first])
             base == NextId(E) - 1
             E2 == E @@ [k \in (base + 1)..(base + Len(p)) |->
                           [daily_log |-> l, status |-> p[k - base].status,
                            start_hour |-> p[k - base].start_hour,
                            duration_hours |-> p[k - base].duration_hours]]
             L2 == L @@ (l :> [trip |-> 1, day |-> first,
                               driving_hours |-> DrivingSum(E2, l),
                               off_duty_hours |-> OtherSum(E2, l)])
         IN  History(first + 1, profile, L2, E2)

\* per-day totals of one DailyLog, from its entries
OnDuty(l) ==
    SumDuration(entries, {e \in EntriesOf(entries, l) :
        entries[e].status \in {"driving", "on_duty_not_driving"}})
OffDuty(l) ==
    SumDuration(entries, {e \in EntriesOf(entries, l) :
        entries[e].status \in {"off_duty", "sleeper_berth"}})

\* day_data, keyed by the day of each DailyLog of the trip in the lookback
DayData(as_of) ==
    LET found == {l \in DOMAIN logs :
                     /\ logs[l].trip = 1
                     /\ logs[l].day >= LookbackStart(as_of)
                     /\ logs[l].day <= as_of}
    IN  [d \in {logs[l].day : l \in found} |->
            LET l == CHOOSE x \in found : logs[x].day = d
            IN  [on |-> OnDuty(l), off |-> OffDuty(l)]]

\* day_data.get(key, {}).get("on", 0.0)
OnOf(day_data, d) == IF d \in DOMAIN day_data THEN day_data[d].on ELSE 0
OffOf(day_data, d) == IF d \in DOMAIN day_data THEN day_data[d].off ELSE 0

NearZeroNever(on) == on < 0
\* on <= 1e-6
NearZero(on) == on * (1000000 \div Unit) <= 1

\* current_off_sum >= 34.0
RestartReachedStrict(off_sum) == off_sum > 34 * Unit
RestartReached(off_sum) == off_sum >= 34 * Unit

InitCycle ==
    /\ pc = "compute_cycle_remaining"
    /\ as_of_date = AsOfDay
    /\ today = AsOfDay
    /\ last = Response("none", TRUE, "")
    /\ inflight = None
    /\ cycle = NoAttrs
    /\ \E n \in 0..MaxHistorySpan :
       \E first \in HistoryDays :
          /\ first + n - 1 \in HistoryDays \/ n = 0
          /\ \E profile \in [first..(first + n - 1) -> Profiles] :
                LET h == History(first, profile, NoAttrs, NoAttrs)
                IN  logs = h.logs /\ entries = h.entries
    /\ IdleStops /\ IdleTrip

CycleFrame ==
    UNCHANGED <<as_of_date, storeVars, stopVars, tripVars, loopVars, compliance>>

\* lines 497-528: the query, day_data and the scan's initial state
BuildDayData ==
    /\ pc = "compute_cycle_remaining"
    /\ pc' = "scan"
    /\ cycle' = [day_data |-> DayData(as_of_date),
                 window_start |-> WindowStart(as_of_date),
                 restart_detected |-> FALSE,
                 restart_after_day |-> {},
                 current_off_sum |-> 0,
                 current_seq_days |-> <<>>,
                 day_cursor |-> LookbackStart(as_of_date)]
    /\ CycleFrame

\* one iteration of the restart-detection loop
ScanDay ==
    /\ pc = "scan"
    /\ cycle.day_cursor <= as_of_date
    /\ LET d == cycle.day_cursor
           on == OnOf(cycle.day_data, d)
           off == OffOf(cycle.day_data, d)
           off_sum == IF NearZero(on) THEN cycle.current_off_sum + off ELSE 0
           seq_days == IF NearZero(on) THEN Append(cycle.current_seq_days, d)
                       ELSE <<>>
       IN  cycle' = [cycle EXCEPT
               !.current_off_sum = off_sum,
               !.current_seq_days = seq_days,
               !.restart_detected = IF RestartReached(off_sum) THEN TRUE ELSE @,
               !.restart_after_day = IF RestartReached(off_sum) THEN {d} ELSE @,
               !.day_cursor = d + 1]
    /\ UNCHANGED pc
    /\ CycleFrame

\* lines 546-553: the effective start of the summation
StartSum ==
    /\ pc = "scan"
    /\ cycle.day_cursor > as_of_date
    /\ LET restarted ==
               /\ cycle.restart_detected
               /\ cycle.restart_after_day # {}
               /\ \A r \in cycle.restart_after_day : r >= cycle.window_start
           sum_start ==
               IF restarted
               THEN 1 + CHOOSE r \in cycle.restart_after_day : TRUE
               ELSE cycle.window_start
       IN  cycle' = [day_data |-> cycle.day_data,
                     window_start |-> cycle.window_start,
                     restart_detected |-> cycle.restart_detected,
                     restart_after_day |-> cycle.restart_after_day,
                     current_off_sum |-> cycle.current_off_sum,
                     current_seq_days |-> cycle.current_seq_days,
                     used_hours |-> 0,
                     sum_start |-> sum_start,
                     day_cursor |-> sum_start]
    /\ pc' = "sum"
    /\ CycleFrame

\* one iteration of the summation loop
SumDay ==
    /\ pc = "sum"
    /\ cycle.day_cursor <= as_of_date
    /\ cycle' = [cycle EXCEPT
           !.used_hours = @ + OnOf(cycle.day_data, cycle.day_cursor),
           !.day_cursor = @ + 1]
    /\ UNCHANGED pc
    /\ CycleFrame

Max(a, b) == IF a >= b THEN a ELSE b

\* lines 559-570: the result
ReturnCycle ==
    /\ pc = "sum"
    /\ cycle.day_cursor > as_of_date
    /\ cycle' = [trip_id |-> 1,
                 window_start |-> cycle.sum_start,
                 window_end |-> as_of_date,
                 used_hours |-> Round2(cycle.used_hours),
                 remaining_hours |-> Round2(Max(0, 70 * Unit - cycle.used_hours)),
                 restart_detected |-> cycle.restart_detected,
                 restart_end_day |-> cycle.restart_after_day]
    /\ pc' = "done"
    /\ CycleFrame

NextCycle == BuildDayData \/ ScanDay \/ StartSum \/ SumDay \/ ReturnCycle

SpecCycle == InitCycle /\ [][NextCycle]_vars /\ WF_vars(NextCycle)

\* ------------------------------------------------------------------------
\* Rolling Cycle Calculator properties (SpecCycle)

\* the 8 calendar days ending at the as-of date
Window == (as_of_date - 7)..as_of_date

OnDutyEntries(days) ==
    {e \in DOMAIN entries :
        /\ entries[e].status \in {"driving", "on_duty_not_driving"}
        /\ logs[entries[e].daily_log].day \in days}
OffDutyEntries(days) ==
    {e \in DOMAIN entries :
        /\ entries[e].status \in {"off_duty", "sleeper_berth"}
        /\ logs[entries[e].daily_log].day \in days}

\* C10: a history with no on-duty entry (driving or on_duty_not_driving) on
\* any of the 8 calendar days ending at the as-of date yields used_hours = 0
\* and remaining_hours = 70, whatever off-duty entries and older on-duty
\* entries exist.
C10_NoRecentOnDuty ==
    (pc = "done" /\ OnDutyEntries(Window) = {})
        => (cycle.used_hours = 0 /\ cycle.remaining_hours = 70 * Unit)

\* on-duty entries older than the window, off-duty entries inside it
C10_Witness ==
    /\ pc = "done"
    /\ OnDutyEntries(Window) = {}
    /\ OnDutyEntries(HistoryDays \ Window) # {}
    /\ \E e \in OnDutyEntries(HistoryDays) :
          logs[entries[e].daily_log].day >= as_of_date - LookbackDays
    /\ OffDutyEntries(Window) # {}
    /\ cycle.used_hours = 0
    /\ cycle.remaining_hours = 70 * Unit

\* per-day totals read from the stored entries, whatever the scan computes
DayOn(d) == SumDuration(entries, OnDutyEntries({d}))
DayOff(d) == SumDuration(entries, OffDutyEntries({d}))
OnSum(days) == SumDuration(entries, OnDutyEntries(days))
OffSum(days) == SumDuration(entries, OffDutyEntries(days))

\* days s..r are consecutive days without on-duty time whose off-duty hours
\* add up to 34 or more
RestartStreak(s, r) ==
    /\ s <= r
    /\ \A d \in s..r : DayOn(d) = 0
    /\ OffSum(s..r) >= 34 * Unit

\* the streak s..r ends inside the window and the next day has on-duty time
StreakThenWork(s, r) ==
    /\ RestartStreak(s, r)
    /\ r \in Window
    /\ DayOn(r + 1) > 0

\* the result reports a restart whose last day is r
RestartReported(r) ==
    /\ cycle.restart_detected
    /\ cycle.window_start = r + 1
    /\ cycle.used_hours = OnSum((r + 1)..as_of_date)

\* C11 as stated: every streak of consecutive zero-on-duty days with at least
\* 34 off-duty hours that ends inside the 8-day window and is followed the
\* next day by on-duty hours makes the result report restart_detected, start
\* the window on the day after the streak and count only the on-duty hours
\* from that day through the as-of date.
C11_AnyStreak ==
    pc = "done" =>
        \A s \in HistoryDays : \A r \in HistoryDays :
            StreakThenWork(s, r) => RestartReported(r)

\* a streak the scan sees whole: none of its days is older than the lookback
ScannedStreak(s, r) == RestartStreak(s, r) /\ s >= as_of_date - LookbackDays

\* C11, amended: the streak lies within the 10-day lookback, ends inside the
\* 8-day window, is followed the next day by on-duty hours, and no later day
\* through the as-of date ends another such streak; then the result reports
\* restart_detected, starts the window on the day after the streak and counts
\* only the on-duty hours from that day through the as-of date.
C11_LatestStreak ==
    pc = "done" =>
        \A s \in HistoryDays : \A r \in HistoryDays :
            (/\ StreakThenWork(s, r)
             /\ s >= as_of_date - LookbackDays
             /\ ~\E s2 \in HistoryDays : \E r2 \in (r + 1)..as_of_date :
                    ScannedStreak(s2, r2))
                => RestartReported(r)

\* work, a day off, ten hours in the berth, then work again inside the window:
\* the hours worked before the streak are in the window and are not counted
C11_Witness ==
    /\ pc = "done"
    /\ \E r \in Window :
          /\ StreakThenWork(r - 1, r)
          /\ r + 1 <= as_of_date
          /\ DayOn(r - 2) > 0
          /\ r - 2 \in Window
          /\ RestartReported(r)
          /\ cycle.used_hours > 0
          /\ cycle.used_hours < OnSum(Window)

\* the days the scan visits
ScanDays == (as_of_date - LookbackDays)..as_of_date

\* first day of the unbroken run of zero-on-duty days that day d ends, within
\* the scan
RunStart(d) ==
    CHOOSE s \in ScanDays :
        /\ s <= d
        /\ \A k \in s..d : DayOn(k) = 0
        /\ \A t \in ScanDays : (t < s) => \E k \in t..d : DayOn(k) > 0

\* day d ends a run whose accumulated off-duty total is 34 hours or more
Qualifies(d) ==
    /\ d \in ScanDays
    /\ DayOn(d) = 0
    /\ OffSum(RunStart(d)..d) >= 34 * Unit

\* C18: the reported restart day is the latest day of the scan (10 days
\* before the as-of date through the as-of date) on which the off-duty total
\* accumulated over the current unbroken run of zero-on-duty days is at least
\* 34 hours; a day with on-duty hours ends the run and its total, and an
\* earlier qualifying day never overrides a later one.
C18_LatestRestart ==
    pc = "done" =>
        LET Q == {d \in ScanDays : Qualifies(d)}
        IN  /\ cycle.restart_detected <=> Q # {}
            /\ cycle.restart_end_day = {d \in Q : \A e \in Q : e <= d}

\* two runs reach 34 hours with a working day between them; the later wins
C18_Witness ==
    /\ pc = "done"
    /\ \E d1 \in ScanDays : \E d2 \in ScanDays : \E d3 \in ScanDays :
          /\ d1 < d2 /\ d2 < d3
          /\ Qualifies(d1) /\ DayOn(d2) > 0 /\ Qualifies(d3)
          /\ OffSum(RunStart(d3)..d3) = 34 * Unit
          /\ \E r \in cycle.restart_end_day : r >= d3

\* C19: the effective window start is never later than the as-of date and
\* lies within the 8 calendar days ending at the as-of date.
C19_WindowStartInWindow ==
    pc = "done" =>
        /\ cycle.window_start <= cycle.window_end
        /\ cycle.window_start \in Window

\* ------------------------------------------------------------------------
\* SpecRoute: one POST /trips/<id>/calculate_route/, from the request through
\* geocoding, calculate_trip_route with its two OpenRouteService calls, to
\* generate_daily_logs and calculate_eld_compliance.  Latitudes and longitudes
\* are whole degrees; polylines are left out of the route records.

\* request.data.get("current_location"): absent, or with lat and lon each a
\* number or missing
CurrentLocationInputs ==
    {a @@ b : a \in OptField("lat", {0, 40}), b \in OptField("lon", {0, -74})}

\* What a collaborator answers: an HTTP/network error, or a body.
Reply(status, body) == [status |-> status, body |-> body]
GeocoderReplies ==
    {Reply("error", <<>>), Reply("ok", <<>>)}
    \cup {Reply("ok", <<[lon |-> lon, lat |-> lat]>>) :
            lon \in {0, -75}, lat \in {0, 39}}
\* summary.distance in meters, summary.duration in seconds: a few meters,
\* New York to Philadelphia, and a 17-hour leg
RouteSummaries ==
    {[distance |-> 5, duration |-> 4],
     [distance |-> 152000, duration |-> 6000],
     [distance |-> 1700000, duration |-> 61200]}
ProviderReplies ==
    {Reply("error", <<>>), Reply("ok", <<>>)}
    \cup {Reply("ok", <<[summary |-> x]>>) : x \in RouteSummaries}

\* geocode_address: the first feature's coordinates, (0.0, 0.0) on any failure
geocode_address(reply) ==
    IF reply.status = "ok" /\ reply.body # <<>>
    THEN [lat |-> reply.body[1].lat, lon |-> reply.body[1].lon]
    ELSE [lat |-> 0, lon |-> 0]

\* loc.get('lat') in [0.0, None] or loc.get('lon') in [0.0, None]
InvalidCoordinates(loc) ==
    \/ ~Has(loc, "lat") \/ ~Has(loc, "lon")
    \/ loc.lat = 0 \/ loc.lon = 0

\* distance_meters * 0.000621371 and duration_seconds / 3600, in thousandths
\* (the product is cut to a thousandth before round(x, 2) sees it)
MilesOf(meters) ==
    ((meters \div 1000) * 621371 + ((meters % 1000) * 621371) \div 1000) \div 1000
HoursOf(seconds) == (seconds * 1000) \div 3600

_parse_route_response(r) ==
    [total_distance |-> Round2(MilesOf(r.summary.distance)),
     total_driving_time |-> Round2(HoursOf(r.summary.duration)),
     total_trip_time |-> Round2(HoursOf(r.summary.duration)),
     segments |-> <<>>,
     stops |-> <<>>]

\* get_route raises on a request error and on a body without routes
RouteFound(reply) == reply.status = "ok" /\ reply.body # <<>>

\* distance / mpg with mpg = 6.5, and $3.50 a gallon
calculate_fuel_requirement(distance) ==
    LET gallons_needed == (distance * 10) \div 65
    IN  [gallons_needed |-> Round2(gallons_needed),
         mpg |-> 65 * Cent * Cent,
         estimated_cost |-> Round2((gallons_needed * 35) \div 10)]

RECURSIVE SumStopDurations(_)
SumStopDurations(seq) ==
    IF seq = <<>> THEN 0 ELSE seq[1].duration + SumStopDurations(Tail(seq))

InitRoute ==
    /\ pc = "calculate_route"
    /\ \E current \in CurrentLocationInputs :
       \E pickup \in GeocoderReplies : \E dropoff \in GeocoderReplies :
       \E provider \in [1..2 -> ProviderReplies] :
          route = [current_location |-> current,
                   geocoder |-> [pickup |-> pickup, dropoff |-> dropoff],
                   provider |-> provider,
                   locations |-> <<>>,
                   legs |-> <<>>,
                   result |-> <<>>]
    /\ trip_start_time = 8 * Unit
    /\ cycle_used_hours = 2 * Unit
    /\ trip_duration_hours = 0 /\ compliance = NoAttrs
    /\ daily_logs = <<>> /\ current_time = 0 /\ remaining_trip_time = 0
    /\ remaining_cycle_hours = 0 /\ day_count = 0
    /\ driving_time_hours = 0 /\ total_distance = 0 /\ stops = <<>>
    /\ logs = None /\ entries = None /\ today = None /\ inflight = None
    /\ last = Response("none", TRUE, "")
    /\ IdleCycle

\* the handler answers with an error status
Fail(error) ==
    /\ last' = Response("/calculate_route/", FALSE, error)
    /\ pc' = "done"
    /\ UNCHANGED <<route, driving_time_hours, total_distance, stops, tripVars,
                   loopVars, compliance, logs, entries, today, inflight,
                   cycleVars>>

\* views.py 66-77: current_location missing (400) or without a number (400)
BadCurrentLocation ==
    /\ pc = "calculate_route"
    /\ \/ /\ route.current_location = NoAttrs
          /\ Fail("current_location is required")
       \/ /\ route.current_location # NoAttrs
          /\ ~Has(route.current_location, "lat")
                \/ ~Has(route.current_location, "lon")
          /\ Fail("Invalid current_location payload")

\* views.py 69-81: current is read, pickup and dropoff are geocoded
GeocodeLocations ==
    /\ pc = "calculate_route"
    /\ Has(route.current_location, "lat") /\ Has(route.current_location, "lon")
    /\ route' = [route EXCEPT !.locations =
          <<[lat |-> route.current_location.lat,
             lon |-> route.current_location.lon],
            geocode_address(route.geocoder.pickup),
            geocode_address(route.geocoder.dropoff)>>]
    /\ pc' = "calculate_trip_route"
    /\ UNCHANGED <<driving_time_hours, total_distance, stops, tripVars,
                   loopVars, compliance, storeVars, cycleVars>>

\* utils.py 180-185 raise ValueError; views.py 108-112 answer 500
RejectCoordinates ==
    /\ pc = "calculate_trip_route"
    /\ \E i \in 1..3 : InvalidCoordinates(route.locations[i])
    /\ Fail("Route calculation failed: Invalid coordinates")

AcceptCoordinates ==
    /\ pc = "calculate_trip_route"
    /\ \A i \in 1..3 : ~InvalidCoordinates(route.locations[i])
    /\ pc' = "get_route"
    /\ UNCHANGED <<stopVars, tripVars, loopVars, compliance, storeVars, cycleVars>>

\* ors_client.get_route answers for the next leg
GetRoute ==
    /\ pc = "get_route"
    /\ Len(route.legs) < 2
    /\ RouteFound(route.provider[Len(route.legs) + 1])
    /\ route' = [route EXCEPT !.legs = Append(@,
          _parse_route_response(route.provider[Len(route.legs) + 1].body[1]))]
    /\ UNCHANGED <<pc, driving_time_hours, total_distance, stops, tripVars,
                   loopVars, compliance, storeVars, cycleVars>>

\* ors_client.get_route raises; calculate_trip_route re-raises (utils.py
\* 242-247); views.py 108-112 answer 500
RouteUnavailable ==
    /\ pc = "get_route"
    /\ Len(route.legs) < 2
    /\ ~RouteFound(route.provider[Len(route.legs) + 1])
    /\ IF route.provider[Len(route.legs) + 1].status = "ok"
       THEN Fail("Route calculation failed: No route found")
       ELSE Fail("Route calculation failed: Failed to calculate route")

\* utils.py 211-240: totals, stops and the route; views.py 87-92: the first
\* lines of generate_daily_logs on route['total_trip_time']
CombineLegs ==
    /\ pc = "get_route"
    /\ Len(route.legs) = 2
    /\ pc' = "generate_daily_logs"
    /\ LET distance ==
               Round2(route.legs[1].total_distance + route.legs[2].total_distance)
           total_driving_time ==
               route.legs[1].total_driving_time + route.legs[2].total_driving_time
           planned == calculate_trip_stops(total_driving_time, distance)
           total_trip_time == total_driving_time + SumStopDurations(planned)
       IN  /\ driving_time_hours' = total_driving_time
           /\ total_distance' = distance
           /\ stops' = planned
           /\ route' = [route EXCEPT !.result =
                 <<[total_distance |-> distance,
                    total_driving_time |-> Round2(total_driving_time),
                    total_trip_time |-> Round2(total_trip_time),
                    stops |-> planned,
                    fuel_required |-> calculate_fuel_requirement(distance),
                    api_used |-> TRUE]>>]
           /\ trip_duration_hours' = Round2(total_trip_time)
           /\ daily_logs' = <<>>
           /\ current_time' = trip_start_time
           /\ remaining_trip_time' = Round2(total_trip_time)
           /\ remaining_cycle_hours' = 11 * Unit - cycle_used_hours
           /\ day_count' = 0
    /\ UNCHANGED <<trip_start_time, cycle_used_hours, compliance, storeVars,
                   cycleVars>>

NextRoute ==
    \/ BadCurrentLocation \/ GeocodeLocations
    \/ RejectCoordinates \/ AcceptCoordinates
    \/ GetRoute \/ RouteUnavailable \/ CombineLegs
    \/ ForcedBreakDay \/ DrivingDay \/ ReturnDailyLogs \/ CheckCompliance

SpecRoute == InitRoute /\ [][NextRoute]_vars /\ WF_vars(NextRoute)

\* ------------------------------------------------------------------------
\* Route calculation properties (SpecRoute)

\* the request passed validation and the Route Provider was asked
ProviderAsked ==
    /\ route.locations # <<>>
    /\ \A i \in 1..3 : route.locations[i].lat # 0 /\ route.locations[i].lon # 0
ProviderFailed ==
    ProviderAsked /\ \E leg \in 1..2 : ~RouteFound(route.provider[leg])

\* C12: when the Route Provider fails on either leg, calculate_trip_route
\* falls back to an estimate and calculate_route still answers with a route,
\* daily logs and a compliance result rather than with an error.
C12_FallbackOnProviderFailure ==
    (pc = "done" /\ ProviderFailed)
        => (last.ok /\ route.result # <<>> /\ Len(daily_logs) > 0)

\* C13: calculate_trip_route rejects a location as invalid exactly when its
\* latitude and longitude are both zero or unset; a location with only one
\* zero coordinate is accepted.
BothZero(loc) ==
    (~Has(loc, "lat") \/ loc.lat = 0) /\ (~Has(loc, "lon") \/ loc.lon = 0)
C13_InvalidIffBothZero ==
    (pc = "done" /\ route.locations # <<>>)
        => ((last.error = "Route calculation failed: Invalid coordinates")
                <=> \E i \in 1..3 : BothZero(route.locations[i]))

\* C15: a successful get_route returns a result with the fields
\* distance_miles and duration_hours, each greater than zero.
C15_RouteFields ==
    route.legs # <<>> =>
        \A i \in 1..Len(route.legs) :
            /\ "distance_miles" \in DOMAIN route.legs[i]
            /\ "duration_hours" \in DOMAIN route.legs[i]
            /\ route.legs[i].distance_miles > 0
            /\ route.legs[i].duration_hours > 0

\* ------------------------------------------------------------------------
\* More Daily Log Generator properties (SpecTrip)

\* C14: the records generate_daily_logs emits have pairwise distinct day
\* dates, for every start time, trip duration and cycle_used >= 0 (one log
\* per trip and day, as the unique (trip, day) constraint requires).
C14_DistinctDays ==
    (pc # "generate_daily_logs" /\ cycle_used_hours >= 0)
        => \A i \in 1..Len(daily_logs) : \A j \in 1..Len(daily_logs) :
              i # j => daily_logs[i].day # daily_logs[j].day

\* the forced 10-hour break record
IsForcedBreak(r) == r.status = "off_duty" /\ r.driving_hours = 0

\* index of the most recent forced break at or before record i, 0 if none
LastBreak(i) ==
    LET breaks == {j \in 1..i : IsForcedBreak(daily_logs[j])}
    IN  IF breaks = {} THEN 0
        ELSE CHOOSE j \in breaks : \A k \in breaks : k <= j

RECURSIVE DrivingBetween(_, _)
DrivingBetween(lo, hi) ==
    IF lo > hi THEN 0
    ELSE daily_logs[hi].driving_hours + DrivingBetween(lo, hi - 1)

\* driving hours on the 11-hour clock when record i was emitted
DrivingSinceBreak(i) ==
    (IF LastBreak(i) = 0 THEN cycle_used_hours ELSE 0)
        + DrivingBetween(LastBreak(i) + 1, i)

\* C16: with 0 <= cycle_used <= 11 no record has driving_hours above 11, and
\* the driving hours emitted since the most recent forced break (before the
\* first break: cycle_used plus the driving hours emitted so far) never total
\* more than 11.
C16_ElevenHourLimit ==
    (cycle_used_hours >= 0 /\ cycle_used_hours <= 11 * Unit)
        => \A i \in 1..Len(daily_logs) :
              /\ daily_logs[i].driving_hours <= 11 * Unit
              /\ DrivingSinceBreak(i) <= 11 * Unit

\* the step appends a forced-break record
EmitsForcedBreak ==
    /\ Len(daily_logs') = Len(daily_logs) + 1
    /\ IsForcedBreak(daily_logs'[Len(daily_logs')])

\* C17: an iteration that starts with remaining_trip_time > 0 and
\* remaining_cycle_hours <= 0 emits a record with driving_hours 0,
\* off_duty_hours 10 and status off_duty dated at the current time, sets
\* remaining_cycle_hours to 11, advances the clock by exactly 10 hours and
\* leaves remaining_trip_time unchanged; no other iteration emits a
\* forced-break record.
C17_ForcedBreak ==
    [][pc = "generate_daily_logs" /\ pc' = "generate_daily_logs" =>
        /\ (remaining_trip_time > 0 /\ remaining_cycle_hours <= 0) =>
              /\ EmitsForcedBreak
              /\ SubSeq(daily_logs', 1, Len(daily_logs)) = daily_logs
              /\ daily_logs'[Len(daily_logs')].day = DateOf(current_time)
              /\ daily_logs'[Len(daily_logs')].off_duty_hours = 10 * Unit
              /\ remaining_cycle_hours' = 11 * Unit
              /\ current_time' = current_time + 10 * Unit
              /\ remaining_trip_time' = remaining_trip_time
        /\ EmitsForcedBreak =>
              (remaining_trip_time > 0 /\ remaining_cycle_hours <= 0)]_vars

\* a break was just taken after a day of driving that used the cycle up
C17_Witness ==
    /\ pc = "generate_daily_logs"
    /\ Len(daily_logs) >= 2
    /\ IsForcedBreak(daily_logs[Len(daily_logs)])
    /\ daily_logs[Len(daily_logs) - 1].status = "driving"
    /\ daily_logs[Len(daily_logs)].off_duty_hours = 10 * Unit
    /\ remaining_cycle_hours = 11 * Unit
    /\ remaining_trip_time > 0
    /\ DateOf(current_time - 10 * Unit) = daily_logs[Len(daily_logs)].day

\* ------------------------------------------------------------------------
\* SpecRace: two entry requests on the same DailyLog served at the same time.
\* The views run without a transaction or lock, so each handler is three
\* database statements that interleave with the other request's: the save
\* (or delete) of the entry, the SELECT of daily_log.entries.all(), and the
\* UPDATE of the rollup fields.

Requests == 1..2

\* The log of today with one entry per request to update or delete.
RaceLogs ==
    1 :> [trip |-> 1, day |-> 0, driving_hours |-> 2 * Unit,
          off_duty_hours |-> 10 * Unit]
RaceEntries ==
    (1 :> [daily_log |-> 1, status |-> "driving", start_hour |-> 8 * Unit,
           duration_hours |-> 2 * Unit])
    @@ (2 :> [daily_log |-> 1, status |-> "off_duty", start_hour |-> 10 * Unit,
              duration_hours |-> 10 * Unit])

Request(method, entry, attrs) ==
    [method |-> method, entry |-> entry, attrs |-> attrs]

\* what request r may be: a create on the log, or a PATCH or DELETE of its
\* own entry r
RaceRequests(r) ==
    {Request("POST", 0,
             [daily_log |-> 1, status |-> st, start_hour |-> 20 * Unit,
              duration_hours |-> du]) :
        st \in {"driving", "off_duty"}, du \in {Unit, 3 * Unit}}
    \cup {Request("PATCH", r, [duration_hours |-> 4 * Unit]),
          Request("DELETE", r, NoAttrs)}

InitRace ==
    /\ pc = "serve"
    /\ logs = RaceLogs
    /\ entries = RaceEntries
    /\ today = 0
    /\ last = Response("none", TRUE, "")
    /\ \E first \in RaceRequests(1) : \E second \in RaceRequests(2) :
          inflight = [r \in Requests |->
                        [request |-> IF r = 1 THEN first ELSE second,
                         daily_log |-> 1,
                         pc |-> "save", drive |-> 0, off |-> 0]]
    /\ IdleStops /\ IdleTrip /\ IdleCycle

RaceFrame ==
    UNCHANGED <<pc, today, last, stopVars, tripVars, loopVars, compliance,
                cycleVars>>

\* the rows after request q is applied: serializer.save() / instance.delete()
Saved(q) ==
    CASE q.method = "POST" ->
            entries @@ (NextId(entries) :>
                [daily_log |-> q.attrs.daily_log, status |-> q.attrs.status,
                 start_hour |-> Field(q.attrs, "start_hour", 0),
                 duration_hours |-> Field(q.attrs, "duration_hours", 0)])
      [] q.method = "PATCH" ->
            [entries EXCEPT ![q.entry] =
                [daily_log |-> Field(q.attrs, "daily_log", @.daily_log),
                 status |-> Field(q.attrs, "status", @.status),
                 start_hour |-> Field(q.attrs, "start_hour", @.start_hour),
                 duration_hours |->
                     Field(q.attrs, "duration_hours", @.duration_hours)]]
      [] OTHER -> Restrict(entries, DOMAIN entries \ {q.entry})

\* perform_create / perform_update / perform_destroy up to the save: the
\* serializer's validation, the past-day check, then the entry is written
SaveEntry(r) ==
    /\ inflight[r].pc = "save"
    /\ IF ~Validate(inflight[r].request.attrs)
          \/ logs[inflight[r].daily_log].day < today
       THEN /\ inflight' = [inflight EXCEPT ![r].pc = "rejected"]
            /\ UNCHANGED entries
       ELSE /\ entries' = Saved(inflight[r].request)
            /\ inflight' = [inflight EXCEPT ![r].pc = "read"]
    /\ UNCHANGED logs
    /\ RaceFrame

\* _recompute_rollup: the loop over daily_log.entries.all()
ReadEntries(r) ==
    /\ inflight[r].pc = "read"
    /\ inflight' = [inflight EXCEPT
          ![r].drive = DrivingSum(entries, inflight[r].daily_log),
          ![r].off = OtherSum(entries, inflight[r].daily_log),
          ![r].pc = "write"]
    /\ UNCHANGED <<logs, entries>>
    /\ RaceFrame

\* _recompute_rollup: daily_log.save(update_fields=[...])
WriteRollup(r) ==
    /\ inflight[r].pc = "write"
    /\ logs' = [logs EXCEPT
          ![inflight[r].daily_log].driving_hours = inflight[r].drive,
          ![inflight[r].daily_log].off_duty_hours = inflight[r].off]
    /\ inflight' = [inflight EXCEPT ![r].pc = "done"]
    /\ UNCHANGED entries
    /\ RaceFrame

NextRace == \E r \in Requests : SaveEntry(r) \/ ReadEntries(r) \/ WriteRollup(r)

SpecRace == InitRace /\ [][NextRace]_vars

\* C20: when two entry mutations on the same DailyLog run concurrently, each
\* as the steps save-entry, read-all-entries, write-rollup with no lock or
\* transaction around them, then once both have completed the DailyLog's
\* rollup fields equal the sums over the entries stored at that moment.
C20_NoLostUpdate ==
    (\A r \in Requests : inflight[r].pc = "done")
        => /\ logs[1].driving_hours = DrivingSum(entries, 1)
           /\ logs[1].off_duty_hours = OtherSum(entries, 1)

\* ------------------------------------------------------------------------
\* Rollup against the Rolling Cycle Calculator (Spec)

\* the logs whose rollup the step's entry request recomputed: the log of the
\* created or deleted entry, the log an updated entry belonged to
RecomputedLogs ==
    {entries[e].daily_log :
        e \in {x \in DOMAIN entries :
                  x \notin DOMAIN entries' \/ entries'[x] # entries[x]}}
    \cup {entries'[e].daily_log : e \in DOMAIN entries' \ DOMAIN entries}

\* the per-day off-duty total as compute_cycle_remaining classifies it, over
\* the rows after the step
OffDutyAfter(l) ==
    SumDuration(entries', {e \in EntriesOf(entries', l) :
        entries'[e].status \in {"off_duty", "sleeper_berth"}})

\* C21: the rollup and the Rolling Cycle Calculator classify duty statuses
\* identically: after _recompute_rollup the log's off_duty_hours equals the
\* sum of the durations of its entries with status off_duty or sleeper_berth,
\* so on_duty_not_driving entries contribute nothing to off_duty_hours.
C21_SameClassification ==
    [][(last'.endpoint = "/entries/" /\ last'.ok) =>
          \A l \in RecomputedLogs \cap DOMAIN logs' :
              logs'[l].off_duty_hours = OffDutyAfter(l)]_vars

\* ------------------------------------------------------------------------
\* ELD Compliance Checker: break time (SpecTrip)

\* C22: for every trip_duration >= 0 and every cycle_used >= 0 the
\* total_break_time returned by calculate_eld_compliance is non-negative.
C22_BreakTimeNonNegative ==
    (pc = "done" /\ trip_duration_hours >= 0 /\ cycle_used_hours >= 0)
        => compliance.total_break_time >= 0

====
